---- MODULE Spec2Model ----
(***************************************************************************)
(* HireLoop preprocessing: clean_text, the regex extractors, find_skills,   *)
(* split_sections (src/utils.py), the resume and job field extractors       *)
(* (src/resume_parser.py, src/job_parser.py) and ParserManager              *)
(* (src/manager.py).                                                        *)
(*                                                                          *)
(* Representation.  A Python str is a sequence of characters; a character   *)
(* is a one-character string, or a name for the few characters TLA+ cannot  *)
(* write (NBSP, BEL, VT, BULLET).  An Optional value is a sequence of       *)
(* length at most one: None is << >> and a present value v is <<v>>.  A     *)
(* Python list is a sequence, a dict is a record, the empty dict is << >>.  *)
(* A Python exception corresponds to applying an operator outside its       *)
(* domain (indexing None), which TLC reports as an error of the run.        *)
(***************************************************************************)
EXTENDS Integers, Sequences, FiniteSets, TLC

VARIABLES
    file,       \* the document on disk: [ext, content]
    ner,        \* the optional named-entity capability of this process
    pc,         \* position of the ParserManager.parse call
    raw,        \* parse's local `raw` (manager.py:70)
    doc_type,   \* parse's local `doc_type` (manager.py:71)
    xraw,       \* the extractor's local `raw` (resume_parser.py:117, job_parser.py:77)
    data,       \* parse's local `data`
    result,     \* the dict parse returns
    call        \* a call of a utility function: [op, arg, done, ret]

vars == <<file, ner, pc, raw, doc_type, xraw, data, result, call>>

parseVars == <<file, ner, pc, raw, doc_type, xraw, data, result>>

-----------------------------------------------------------------------------
(* Characters *)

NBSP == "NBSP"
BEL == "BEL"
VT == "VT"
BULLET == "BULLET"

LowerLetters == <<"a","b","c","d","e","f","g","h","i","j","k","l","m","n","o","p","q","r","s","t","u","v","w","x","y","z">>
UpperLetters == <<"A","B","C","D","E","F","G","H","I","J","K","L","M","N","O","P","Q","R","S","T","U","V","W","X","Y","Z">>
DigitChars == <<"0","1","2","3","4","5","6","7","8","9">>

\* The characters of the model in code-point order (ASCII, then U+00A0, U+2022).
CodePoints ==
    <<BEL, "\t", "\n", VT, "\f", "\r">> \o <<" ","!","#","$","%","&","'","(",")","*","+",",","-",".","/">> \o DigitChars
    \o <<":",";","=","?","@">> \o UpperLetters \o <<"[","]","_">> \o LowerLetters \o <<"~">> \o <<NBSP, BULLET>>

Range(s) == {s[i] : i \in 1..Len(s)}

Char == Range(CodePoints)

Ord == [c \in Char |-> CHOOSE i \in 1..Len(CodePoints) : CodePoints[i] = c]

Letters == Range(LowerLetters) \cup Range(UpperLetters)

Digits == Range(DigitChars)

\* \w of a str pattern
WordChars == Letters \cup Digits \cup {"_"}

\* \s of a str pattern, and what str.strip() and str.split() take for whitespace
SpaceChars == {" ", "\t", "\n", VT, "\f", "\r", NBSP}

\* Unicode category Cc
ControlChars == {BEL, "\t", "\n", VT, "\f", "\r"}

\* str.lower(), one character
LowerChar ==
    [c \in Char |->
        IF c \in Range(UpperLetters)
        THEN LowerLetters[CHOOSE i \in 1..26 : UpperLetters[i] = c]
        ELSE c]

UpperChar ==
    [c \in Char |->
        IF c \in Range(LowerLetters)
        THEN UpperLetters[CHOOSE i \in 1..26 : LowerLetters[i] = c]
        ELSE c]

-----------------------------------------------------------------------------
(* Python values and str methods *)

None == << >>

Some(v) == <<v>>

\* `not x` for an Optional[str]
Falsy(x) == x = None \/ x[1] = << >>

\* `x or ""`
OrEmpty(x) == IF Falsy(x) THEN << >> ELSE x[1]

lower(s) == [i \in 1..Len(s) |-> LowerChar[s[i]]]

\* s[i:] with a 1-based i
From(s, i) == SubSeq(s, i, Len(s))

\* s.startswith(p, i-1)
StartsAt(s, p, i) ==
    /\ i + Len(p) - 1 <= Len(s)
    /\ \A k \in 1..Len(p) : s[i + k - 1] = p[k]

\* `p in s`
Contains(s, p) == \E i \in 1..(Len(s) - Len(p) + 1) : StartsAt(s, p, i)

\* s.find(p) + 1, or 0
Find(s, p) ==
    IF Contains(s, p)
    THEN CHOOSE i \in 1..(Len(s) - Len(p) + 1) :
            /\ StartsAt(s, p, i)
            /\ \A j \in 1..(i - 1) : ~StartsAt(s, p, j)
    ELSE 0

RECURSIVE replace(_, _, _)
\* s.replace(old, new), old non-empty
replace(s, old, new) ==
    LET i == Find(s, old) IN
    IF i = 0 THEN s
    ELSE SubSeq(s, 1, i - 1) \o new \o replace(From(s, i + Len(old)), old, new)

RECURSIVE lstripOf(_, _)
lstripOf(s, cs) ==
    IF s # << >> /\ Head(s) \in cs THEN lstripOf(Tail(s), cs) ELSE s

RECURSIVE rstripOf(_, _)
rstripOf(s, cs) ==
    IF s # << >> /\ s[Len(s)] \in cs THEN rstripOf(SubSeq(s, 1, Len(s) - 1), cs) ELSE s

\* s.strip(chars)
stripOf(s, cs) == rstripOf(lstripOf(s, cs), cs)

\* s.strip()
strip(s) == stripOf(s, SpaceChars)

RECURSIVE splitOn(_, _)
\* s.split(sep), sep one character
splitOn(s, sep) ==
    IF \A i \in 1..Len(s) : s[i] # sep THEN <<s>>
    ELSE LET i == CHOOSE k \in 1..Len(s) :
                    s[k] = sep /\ \A j \in 1..(k - 1) : s[j] # sep
         IN <<SubSeq(s, 1, i - 1)>> \o splitOn(From(s, i + 1), sep)

RECURSIVE splitWs(_)
\* s.split(): the maximal runs of non-whitespace
splitWs(s) ==
    LET t == lstripOf(s, SpaceChars) IN
    IF t = << >> THEN << >>
    ELSE LET n == IF \E k \in 1..Len(t) : t[k] \in SpaceChars
                  THEN (CHOOSE k \in 1..Len(t) :
                            t[k] \in SpaceChars /\ \A j \in 1..(k - 1) : t[j] \notin SpaceChars) - 1
                  ELSE Len(t)
         IN <<SubSeq(t, 1, n)>> \o splitWs(From(t, n + 1))

RECURSIVE join(_, _)
\* sep.join(parts)
join(sep, parts) ==
    IF parts = << >> THEN << >>
    ELSE IF Len(parts) = 1 THEN parts[1]
    ELSE parts[1] \o sep \o join(sep, Tail(parts))

\* [x for x in xs if P(x)]
Filter(xs, P(_)) == SelectSeq(xs, P)

\* [F(x) for x in xs]
Map(xs, F(_)) == [i \in 1..Len(xs) |-> F(xs[i])]

\* xs[:n]
Take(xs, n) == SubSeq(xs, 1, IF Len(xs) < n THEN Len(xs) ELSE n)

\* str < str by code points
RECURSIVE StrLess(_, _)
StrLess(a, b) ==
    IF b = << >> THEN FALSE
    ELSE IF a = << >> THEN TRUE
    ELSE IF Head(a) = Head(b) THEN StrLess(Tail(a), Tail(b))
    ELSE Ord[Head(a)] < Ord[Head(b)]

RECURSIVE sorted(_)
\* sorted(S) of a set of str
sorted(S) ==
    IF S = {} THEN << >>
    ELSE LET m == CHOOSE x \in S : \A y \in S \ {x} : StrLess(x, y)
         IN <<m>> \o sorted(S \ {m})

\* all sequences over S of length at most n
SeqsUpTo(S, n) == UNION {[1..k -> S] : k \in 0..n}

-----------------------------------------------------------------------------
(* src/utils.py: cleaning *)

\* WHITESPACE_RE.sub(" ", s): every maximal run of \s becomes one space.  cs is
\* the set \s matches.
SubRuns(s, cs) ==
    LET keep == SelectSeq([i \in 1..Len(s) |-> i],
                          LAMBDA i : s[i] \notin cs \/ i = 1 \/ s[i - 1] \notin cs)
    IN [k \in 1..Len(keep) |-> IF s[keep[k]] \in cs THEN " " ELSE s[keep[k]]]

WHITESPACE_sub(s) == SubRuns(s, SpaceChars)

\* clean_text with the substitution run first and with an ASCII-only \s, so that
\* a non-breaking space turns into a space only after the runs were collapsed
clean_text_ascii_first(text) ==
    IF Falsy(text) THEN << >>
    ELSE stripOf(replace(SubRuns(replace(replace(text[1], <<"\r","\n">>, <<"\n">>), <<"\r">>, <<"\n">>),
                                 SpaceChars \ {NBSP}),
                         <<NBSP>>, <<" ">>),
                 SpaceChars \ {NBSP})

clean_text(text) ==
    IF Falsy(text) THEN << >>
    ELSE LET normalized ==
                replace(replace(replace(text[1], <<NBSP>>, <<" ">>), <<"\r","\n">>, <<"\n">>), <<"\r">>, <<"\n">>)
         IN strip(WHITESPACE_sub(normalized))

-----------------------------------------------------------------------------
(* src/utils.py: skills dictionary *)

DEFAULT_SKILLS ==
    << <<"p","y","t","h","o","n">>, <<"j","a","v","a">>, <<"j","a","v","a","s","c","r","i","p","t">>, <<"t","y","p","e","s","c","r","i","p","t">>, <<"g","o">>, <<"c","+","+">>, <<"c","#">>,
       <<"r","u","b","y">>, <<"s","c","a","l","a">>, <<"r","u","s","t">>, <<"s","q","l">>,
       <<"r","e","a","c","t">>, <<"n","o","d","e">>, <<"d","j","a","n","g","o">>, <<"f","l","a","s","k">>, <<"f","a","s","t","a","p","i">>, <<"s","p","r","i","n","g">>, <<"r","a","i","l","s">>,
       <<"a","n","g","u","l","a","r">>, <<"v","u","e">>,
       <<"p","a","n","d","a","s">>, <<"n","u","m","p","y">>, <<"s","c","i","k","i","t","-","l","e","a","r","n">>, <<"t","e","n","s","o","r","f","l","o","w">>, <<"p","y","t","o","r","c","h">>, <<"s","p","a","c","y">>,
       <<"n","l","t","k">>,
       <<"a","w","s">>, <<"g","c","p">>, <<"a","z","u","r","e">>, <<"d","o","c","k","e","r">>, <<"k","u","b","e","r","n","e","t","e","s">>, <<"t","e","r","r","a","f","o","r","m">>, <<"g","i","t">> >>

\* (?<![\w+#.]) at position i of t
SkillLookbehind(t, i) == i = 1 \/ t[i - 1] \notin WordChars \cup {"+", "#", "."}

\* (?![\w-]): the lookahead without the plus sign
SkillLookaheadNoPlus(t, j) == j > Len(t) \/ t[j] \notin WordChars \cup {"-"}

\* (?![\w+-]) at position j of t
SkillLookahead(t, j) == j > Len(t) \/ t[j] \notin WordChars \cup {"+", "-"}

\* re.search(rf"(?<![\w+#.]){re.escape(skill)}(?![\w+-])", t)
SkillSearch(t, skill) ==
    \E i \in 1..(Len(t) - Len(skill) + 1) :
        /\ StartsAt(t, skill, i)
        /\ SkillLookbehind(t, i)
        /\ SkillLookahead(t, i + Len(skill))

\* find_skills(text, extra_skills): text an Optional[str], extra_skills an
\* Optional list of str
find_skills(text, extra_skills) ==
    IF Falsy(text) THEN << >>
    ELSE LET dictionary ==
                {lower(DEFAULT_SKILLS[i]) : i \in 1..Len(DEFAULT_SKILLS)}
                \cup (IF Falsy(extra_skills) THEN {}
                      ELSE {lower(extra_skills[1][i]) : i \in 1..Len(extra_skills[1])})
             text_lower == <<" ">> \o lower(text[1]) \o <<" ">>
         IN Filter(sorted(dictionary), LAMBDA skill : SkillSearch(text_lower, skill))

-----------------------------------------------------------------------------
(* src/utils.py: section heuristics *)

\* SECTION_HEADERS in the order of the dict: header_map and header_patterns
\* keep this order
SECTION_HEADERS ==
    << [name |-> "education", hs |-> << <<"e","d","u","c","a","t","i","o","n">>, <<"a","c","a","d","e","m","i","c"," ","b","a","c","k","g","r","o","u","n","d">> >>],
       [name |-> "experience",
        hs |-> << <<"e","x","p","e","r","i","e","n","c","e">>, <<"w","o","r","k"," ","e","x","p","e","r","i","e","n","c","e">>, <<"e","m","p","l","o","y","m","e","n","t"," ","h","i","s","t","o","r","y">> >>],
       [name |-> "skills",
        hs |-> << <<"s","k","i","l","l","s">>, <<"t","e","c","h","n","i","c","a","l"," ","s","k","i","l","l","s">>, <<"s","k","i","l","l","s"," ","&"," ","e","n","d","o","r","s","e","m","e","n","t","s">> >>],
       [name |-> "projects", hs |-> << <<"p","r","o","j","e","c","t","s">>, <<"p","e","r","s","o","n","a","l"," ","p","r","o","j","e","c","t","s">> >>],
       [name |-> "certifications",
        hs |-> << <<"c","e","r","t","i","f","i","c","a","t","i","o","n","s">>, <<"l","i","c","e","n","s","e","s">>, <<"c","e","r","t","i","f","i","c","a","t","i","o","n","s"," ","&"," ","l","i","c","e","n","s","e","s">> >>],
       [name |-> "responsibilities",
        hs |-> << <<"r","e","s","p","o","n","s","i","b","i","l","i","t","i","e","s">>, <<"w","h","a","t"," ","y","o","u","'","l","l"," ","d","o">>, <<"w","h","a","t"," ","y","o","u"," ","w","i","l","l"," ","d","o">> >>],
       [name |-> "requirements",
        hs |-> << <<"r","e","q","u","i","r","e","m","e","n","t","s">>, <<"w","h","a","t"," ","y","o","u","'","l","l"," ","n","e","e","d">>, <<"q","u","a","l","i","f","i","c","a","t","i","o","n","s">> >>] >>

RECURSIVE HeaderItems(_)
\* header_map.items(): the (header, name) pairs in insertion order
HeaderItems(groups) ==
    IF groups = << >> THEN << >>
    ELSE [i \in 1..Len(Head(groups).hs) |->
            [h |-> Head(groups).hs[i], name |-> Head(groups).name]]
         \o HeaderItems(Tail(groups))

header_map == HeaderItems(SECTION_HEADERS)

\* pat.match(ln) for the pattern ^\s*{re.escape(h)}\s*:?$ compiled with re.I
HeaderMatch(h, ln) ==
    LET a == lstripOf(ln, SpaceChars)
        rest == lstripOf(From(a, Len(h) + 1), SpaceChars)
    IN /\ StartsAt(lower(a), lower(h), 1)
       /\ rest \in {<< >>, <<":">>}

\* the loop of lines 278-281: index in header_map of the first pattern that
\* matches ln, 0 when none does
MatchedHeader(ln) ==
    IF \E k \in 1..Len(header_map) : HeaderMatch(header_map[k].h, ln)
    THEN CHOOSE k \in 1..Len(header_map) :
            /\ HeaderMatch(header_map[k].h, ln)
            /\ \A j \in 1..(k - 1) : ~HeaderMatch(header_map[j].h, ln)
    ELSE 0

\* flush that appends the section also when it has no lines
flushAlways(st) ==
    [st EXCEPT
        !.sections = @ \o <<[name |-> st.current_name,
                             text |-> strip(join(<<"\n">>, st.current_lines))]>>,
        !.current_lines = << >>]

\* lines 270-274, on the loop state st = [sections, current_name, current_lines]
flush(st) ==
    [st EXCEPT
        !.sections =
            IF st.current_lines # << >>
            THEN @ \o <<[name |-> st.current_name,
                         text |-> strip(join(<<"\n">>, st.current_lines))]>>
            ELSE @,
        !.current_lines = << >>]

RECURSIVE SectionLoop(_, _)
\* lines 276-286
SectionLoop(st, lines) ==
    IF lines = << >> THEN st
    ELSE LET ln == Head(lines)
             matched == MatchedHeader(ln)
         IN SectionLoop(
                IF matched # 0
                THEN [flush(st) EXCEPT !.current_name = header_map[matched].name]
                ELSE [st EXCEPT !.current_lines = @ \o <<ln>>],
                Tail(lines))

\* [ln.strip() for ln in text.split("\n") if ln.strip()]
StrippedLines(text) ==
    Map(Filter(splitOn(text, "\n"), LAMBDA ln : strip(ln) # << >>), strip)

\* split_sections(text), text an Optional[str]: a list of [name, text]
split_sections(text) ==
    IF Falsy(text) THEN <<[name |-> "body", text |-> << >>]>>
    ELSE LET lines == StrippedLines(OrEmpty(text)) IN
         IF lines = << >> THEN <<[name |-> "body", text |-> << >>]>>
         ELSE LET st0 == [sections |-> << >>, current_name |-> "body",
                          current_lines |-> << >>]
                  sections == flush(SectionLoop(st0, lines)).sections
              IN IF sections # << >> THEN sections
                 ELSE <<[name |-> "body", text |-> text[1]]>>

-----------------------------------------------------------------------------
(* Python's re: a backtracking matcher.  Match(re, s, i) is the sequence of    *)
(* positions at which a match of re that starts at position i of s can end,    *)
(* in the order in which the backtracking engine tries them; its head is the   *)
(* match re.match takes.                                                       *)

Eps == [k |-> "eps"]

\* one character of the set cs
Cls(cs) == [k |-> "cls", s |-> cs]

\* one character not in the set cs
NotCls(cs) == [k |-> "ncls", s |-> cs]

Cat(a, b) == [k |-> "cat", a |-> a, b |-> b]

Alt(a, b) == [k |-> "alt", a |-> a, b |-> b]

Inf == -1

\* greedy a{min,max}; max = Inf for no upper limit
Rep(a, min, max) == [k |-> "rep", a |-> a, min |-> min, max |-> max]

Star(a) == Rep(a, 0, Inf)

Plus(a) == Rep(a, 1, Inf)

Opt(a) == Rep(a, 0, 1)

RECURSIVE CatAll(_)
CatAll(res) ==
    IF res = << >> THEN Eps
    ELSE IF Len(res) = 1 THEN res[1]
    ELSE Cat(Head(res), CatAll(Tail(res)))

RECURSIVE AltAll(_)
AltAll(res) == IF Len(res) = 1 THEN res[1] ELSE Alt(Head(res), AltAll(Tail(res)))

\* the literal s
Lit(s) == CatAll([i \in 1..Len(s) |-> Cls({s[i]})])

\* the literal s under re.I
LitI(s) == CatAll([i \in 1..Len(s) |-> Cls({LowerChar[s[i]], UpperChar[s[i]]})])

\* .
Dot == NotCls({"\n"})

RECURSIVE Flatten(_, _, _)
\* seqs[lo] \o ... \o seqs[hi]
Flatten(seqs, lo, hi) ==
    IF lo > hi THEN << >>
    ELSE IF lo = hi THEN seqs[lo]
    ELSE LET mid == (lo + hi) \div 2
         IN Flatten(seqs, lo, mid) \o Flatten(seqs, mid + 1, hi)

\* whether character c matches the one-character pattern re
OneChar(re, c) == IF re.k = "cls" THEN c \in re.s ELSE c \notin re.s

\* the length of the longest run of characters matching the one-character
\* pattern re from position i of s, limit at most (Inf: unlimited)
RunLength(re, s, i, limit) ==
    LET most == IF limit = Inf \/ limit > Len(s) - i + 1 THEN Len(s) - i + 1 ELSE limit
        ok(m) == \A k \in i..(i + m - 1) : OneChar(re, s[k])
    IN CHOOSE m \in 0..most : ok(m) /\ (m = most \/ ~OneChar(re, s[i + m]))

RECURSIVE Match(_, _, _)
Match(re, s, i) ==
    CASE re.k = "eps" -> <<i>>
      [] re.k \in {"cls", "ncls"} ->
            IF i <= Len(s) /\ OneChar(re, s[i]) THEN <<i + 1>> ELSE << >>
      [] re.k = "cat" ->
            LET ends == Match(re.a, s, i)
            IN Flatten([n \in 1..Len(ends) |-> Match(re.b, s, ends[n])], 1, Len(ends))
      [] re.k = "alt" -> Match(re.a, s, i) \o Match(re.b, s, i)
      [] re.k = "rep" /\ re.a.k \in {"cls", "ncls"} ->
            \* a repeated character class: the longest run first, then shorter ones
            LET m == RunLength(re.a, s, i, re.max)
            IN IF m < re.min THEN << >>
               ELSE [n \in 1..(m - re.min + 1) |-> i + m - n + 1]
      [] re.k = "rep" /\ re.a.k \notin {"cls", "ncls"} ->
            LET ends == IF re.max = 0 THEN << >> ELSE Match(re.a, s, i)
                rest == Rep(re.a,
                            IF re.min > 0 THEN re.min - 1 ELSE 0,
                            IF re.max = Inf THEN Inf ELSE re.max - 1)
            IN Flatten([n \in 1..Len(ends) |->
                            IF ends[n] > i THEN Match(rest, s, ends[n]) ELSE << >>],
                       1, Len(ends))
               \o (IF re.min <= 0 THEN <<i>> ELSE << >>)

\* re.search(s): [start, end) of the leftmost match, << >> when there is none
Search(re, s) ==
    IF \E i \in 1..(Len(s) + 1) : Match(re, s, i) # << >>
    THEN LET i == CHOOSE k \in 1..(Len(s) + 1) :
                    /\ Match(re, s, k) # << >>
                    /\ \A j \in 1..(k - 1) : Match(re, s, j) = << >>
         IN <<[start |-> i, end |-> Head(Match(re, s, i))]>>
    ELSE << >>

RECURSIVE FindAllFrom(_, _, _)
\* the matches from position pos on: the leftmost one, then those after its end
FindAllFrom(re, s, pos) ==
    IF \A k \in pos..(Len(s) + 1) : Match(re, s, k) = << >> THEN << >>
    ELSE LET i == CHOOSE k \in pos..(Len(s) + 1) :
                    /\ Match(re, s, k) # << >>
                    /\ \A j \in pos..(k - 1) : Match(re, s, j) = << >>
             e == Head(Match(re, s, i))
         IN <<SubSeq(s, i, e - 1)>> \o FindAllFrom(re, s, IF e > i THEN e ELSE i + 1)

\* re.findall(s) of a pattern without capturing groups
FindAll(re, s) == FindAllFrom(re, s, 1)

\* The spans group 1 can take in a match of pre(grp)post that starts at i, in
\* the engine's order.
GroupSpans(pre, grp, post, s, i) ==
    LET e1 == Match(pre, s, i)
        G(b) == Map(Filter(Match(grp, s, b), LAMBDA e : Match(post, s, e) # << >>),
                    LAMBDA e : [start |-> b, end |-> e])
    IN Flatten([n \in 1..Len(e1) |-> G(e1[n])], 1, Len(e1))

\* m.group(1) of re.search(s) for the pattern pre(grp)post: None when there is
\* no match
SearchGroup1(pre, grp, post, s) ==
    IF \E i \in 1..(Len(s) + 1) : GroupSpans(pre, grp, post, s, i) # << >>
    THEN LET i == CHOOSE k \in 1..(Len(s) + 1) :
                    /\ GroupSpans(pre, grp, post, s, k) # << >>
                    /\ \A j \in 1..(k - 1) : GroupSpans(pre, grp, post, s, j) = << >>
             g == Head(GroupSpans(pre, grp, post, s, i))
         IN Some(SubSeq(s, g.start, g.end - 1))
    ELSE None

-----------------------------------------------------------------------------
(* src/utils.py: regex helpers *)

AlnumChars == Letters \cup Digits

\* [A-Za-z0-9._%+-]+@[A-Za-z0-9.-]+\.[A-Za-z]{2,}
EMAIL_RE ==
    CatAll(<< Plus(Cls(AlnumChars \cup {".", "_", "%", "+", "-"})),
              Lit(<<"@">>),
              Plus(Cls(AlnumChars \cup {".", "-"})),
              Lit(<<".">>),
              Rep(Cls(Letters), 2, Inf) >>)

PhoneSep == Opt(Cls(SpaceChars \cup {".", "-"}))

\* (?:(?:\+?\d{1,3}[\s.-]?)?(?:\(?\d{3}\)?|\d{3})[\s.-]?\d{3}[\s.-]?\d{4})
PHONE_RE ==
    CatAll(<< Opt(CatAll(<< Opt(Lit(<<"+">>)), Rep(Cls(Digits), 1, 3), PhoneSep >>)),
              Alt(CatAll(<< Opt(Lit(<<"(">>)), Rep(Cls(Digits), 3, 3), Opt(Lit(<<")">>)) >>),
                  Rep(Cls(Digits), 3, 3)),
              PhoneSep,
              Rep(Cls(Digits), 3, 3),
              PhoneSep,
              Rep(Cls(Digits), 4, 4) >>)

\* https?://[\w.-]+(?:/[\w._~:/?#[\]@!$&'()*+,;=-]*)?
URL_RE ==
    CatAll(<< Lit(<<"h","t","t","p">>), Opt(Lit(<<"s">>)), Lit(<<":","/","/">>),
              Plus(Cls(WordChars \cup {".", "-"})),
              Opt(Cat(Lit(<<"/">>),
                      Star(Cls(WordChars \cup Range(<<".","_","~",":","/","?","#","[","]","@","!","$","&","'","(",")","*","+",",",";","=","-">>))))) >>)

\* https?://(?:www\.)?<host>/[\w\-/]+ under re.I
ProfileRe(host) ==
    CatAll(<< LitI(<<"h","t","t","p">>), Opt(LitI(<<"s">>)), Lit(<<":","/","/">>),
              Opt(LitI(<<"w","w","w",".">>)),
              LitI(host), Lit(<<"/">>),
              Plus(Cls(WordChars \cup {"-", "/"})) >>)

LINKEDIN_RE == ProfileRe(<<"l","i","n","k","e","d","i","n",".","c","o","m">>)

GITHUB_RE == ProfileRe(<<"g","i","t","h","u","b",".","c","o","m">>)

\* matches[0] if matches else "": the default of the wrong type
FirstOrEmptyStr(matches) == IF matches # << >> THEN Some(matches[1]) ELSE Some(<< >>)

\* matches[0] if matches else None
FirstOrNone(matches) == IF matches # << >> THEN Some(matches[1]) ELSE None

extract_email(text) == FirstOrNone(FindAll(EMAIL_RE, OrEmpty(text)))

extract_phone(text) == FirstOrNone(FindAll(PHONE_RE, OrEmpty(text)))

RECURSIVE Dedupe(_)
\* list(dict.fromkeys(xs))
Dedupe(xs) ==
    IF xs = << >> THEN << >>
    ELSE <<Head(xs)>> \o Dedupe(Filter(Tail(xs), LAMBDA x : x # Head(xs)))

extract_urls(text) == Dedupe(FindAll(URL_RE, OrEmpty(text)))

extract_linkedin(text) == FirstOrNone(FindAll(LINKEDIN_RE, OrEmpty(text)))

extract_github(text) == FirstOrNone(FindAll(GITHUB_RE, OrEmpty(text)))

-----------------------------------------------------------------------------
(* src/resume_parser.py *)

\* The named-entity capability (spaCy) lies outside the repository.  ner says
\* what this process has: "absent" (spacy missing or the model not loadable:
\* _init_nlp returns None), "raises" (calling the model raises), "nothing"
\* (it tags no PERSON), "person" (it tags PERSON entities; the model takes the
\* first two words of the chunk for the first one).
NerKinds == {"absent", "raises", "nothing", "person"}

\* [ent.text.strip() for ent in doc.ents if ent.label_ == "PERSON"]
People(kind, chunk) ==
    IF kind = "person" /\ Len(splitWs(chunk)) >= 2
    THEN <<splitWs(chunk)[1] \o <<" ">> \o splitWs(chunk)[2]>>
    ELSE << >>

\* lines 66-70: the line looks like a name
NameShaped(ln) ==
    LET tokens == splitWs(strip(ln)) IN
    /\ 1 < Len(tokens) /\ Len(tokens) <= 5
    /\ \A k \in 1..Len(tokens) : tokens[k][1] \in Letters
    /\ \E k \in 1..Len(tokens) : tokens[k][1] \in Range(UpperLetters)

NameLines == 10

_guess_name(text, kind) ==
    IF text = << >> THEN None
    ELSE LET first_chunk == join(<<"\n">>, Take(splitOn(text, "\n"), NameLines))
             people == People(kind, first_chunk)
             lns == Filter(splitOn(first_chunk, "\n"), NameShaped)
         IN IF kind \in {"nothing", "person"} /\ people # << >> THEN Some(people[1])
            ELSE IF lns # << >> THEN Some(strip(lns[1]))
            ELSE None

\* any(k in ln.lower() for k in keywords)
HasKeyword(ln, keywords) ==
    \E k \in 1..Len(keywords) : Contains(lower(ln), keywords[k])

\* the non-empty stripped lines of a section
SectionLines(section_text) ==
    Filter(Map(splitOn(section_text, "\n"), strip), LAMBDA ln : ln # << >>)

EducationKeywords ==
    << <<"b","s","c">>, <<"b",".","s">>, <<"b","s"," ">>, <<"b","a","c","h","e","l","o","r">>, <<"m","s","c">>, <<"m",".","s">>, <<"m","s"," ">>, <<"m","a","s","t","e","r">>,
       <<"p","h","d">>, <<"p","h",".","d">>, <<"a","s","s","o","c","i","a","t","e">>, <<"d","i","p","l","o","m","a">>, <<"u","n","i","v","e","r","s","i","t","y">>, <<"c","o","l","l","e","g","e">> >>

_extract_education(section_text) ==
    Filter(SectionLines(section_text), LAMBDA ln : HasKeyword(ln, EducationKeywords))

ExperienceKeywords ==
    << <<"e","n","g","i","n","e","e","r">>, <<"d","e","v","e","l","o","p","e","r">>, <<"m","a","n","a","g","e","r">>, <<"d","e","s","i","g","n","e","r">>, <<"i","n","t","e","r","n">>, <<"a","n","a","l","y","s","t">>,
       <<"l","e","a","d">>, <<"f","o","u","n","d","e","r">>, <<"c","o","n","s","u","l","t","a","n","t">>, <<"a","r","c","h","i","t","e","c","t">> >>

_extract_experience(section_text) ==
    Filter(SectionLines(section_text), LAMBDA ln : HasKeyword(ln, ExperienceKeywords))

ListLimit == 20

_extract_projects(section_text) == Take(SectionLines(section_text), ListLimit)

_extract_certs(section_text) == Take(SectionLines(section_text), ListLimit)

\* "\n".join(s for name_s, s in sections if name_s == name)
SectionText(sections, name) ==
    join(<<"\n">>, Map(Filter(sections, LAMBDA sec : sec.name = name), LAMBDA sec : sec.text))

\* extract_resume_data from line 118 on: raw is what _read_any returned
resume_fields(raw_in, kind) ==
    LET text == clean_text(Some(raw_in))
        sections == split_sections(Some(text))
        skills_sec == SectionText(sections, "skills")
    IN [name |-> _guess_name(text, kind),
        email |-> extract_email(Some(text)),
        phone |-> extract_phone(Some(text)),
        education |-> _extract_education(SectionText(sections, "education")),
        experience |-> _extract_experience(SectionText(sections, "experience")),
        skills |-> find_skills(Some(IF skills_sec # << >> THEN skills_sec ELSE text), None),
        projects |-> _extract_projects(SectionText(sections, "projects")),
        certifications |-> _extract_certs(SectionText(sections, "certifications")),
        linkedin |-> extract_linkedin(Some(text)),
        github |-> extract_github(Some(text)),
        raw_text |-> text]

-----------------------------------------------------------------------------
(* src/job_parser.py *)

Ws == Cls(SpaceChars)

\* a pattern with one capturing group: pre(grp)post
Re1(pre, grp, post) == [pre |-> pre, grp |-> grp, post |-> post]

\* \s*:?\s*(.+) after a label
LabelRe(label) ==
    Re1(CatAll(<< label, Star(Ws), Opt(Lit(<<":">>)), Star(Ws) >>), Plus(Dot), Eps)

\* (?:Job\s*Title|Title)\s*:?\s*(.+) under re.I
TITLE_RE ==
    LabelRe(Alt(CatAll(<< LitI(<<"J","o","b">>), Star(Ws), LitI(<<"T","i","t","l","e">>) >>), LitI(<<"T","i","t","l","e">>)))

\* (?:Company|Employer|Organization)\s*:?\s*(.+) under re.I
COMPANY_RE ==
    LabelRe(AltAll(<< LitI(<<"C","o","m","p","a","n","y">>), LitI(<<"E","m","p","l","o","y","e","r">>), LitI(<<"O","r","g","a","n","i","z","a","t","i","o","n">>) >>))

\* (?:Location|Based\s*in)\s*:?\s*(.+) under re.I
LOCATION_RE ==
    LabelRe(Alt(LitI(<<"L","o","c","a","t","i","o","n">>), CatAll(<< LitI(<<"B","a","s","e","d">>), Star(Ws), LitI(<<"i","n">>) >>)))

\* (\d+\+?\s*(?:years|yrs)\s+of\s+experience[^\n]*) under re.I
EXPERIENCE_RE ==
    Re1(Eps,
        CatAll(<< Plus(Cls(Digits)), Opt(Lit(<<"+">>)), Star(Ws),
                  Alt(LitI(<<"y","e","a","r","s">>), LitI(<<"y","r","s">>)),
                  Plus(Ws), LitI(<<"o","f">>), Plus(Ws), LitI(<<"e","x","p","e","r","i","e","n","c","e">>),
                  Star(NotCls({"\n"})) >>),
        Eps)

\* (Bachelor'?s|Master'?s|Ph\.?D\.|BS|BA|MS|MA)[^\n]* under re.I
EDUCATION_RE ==
    Re1(Eps,
        AltAll(<< CatAll(<< LitI(<<"B","a","c","h","e","l","o","r">>), Opt(Lit(<<"'">>)), LitI(<<"s">>) >>),
                  CatAll(<< LitI(<<"M","a","s","t","e","r">>), Opt(Lit(<<"'">>)), LitI(<<"s">>) >>),
                  CatAll(<< LitI(<<"P","h">>), Opt(Lit(<<".">>)), LitI(<<"D">>) , Lit(<<".">>) >>),
                  LitI(<<"B","S">>), LitI(<<"B","A">>), LitI(<<"M","S">>), LitI(<<"M","A">>) >>),
        Star(NotCls({"\n"})))

\* m.group(1).strip() if m else None, for m = regex.search(text or "")
_extract_first_match(regex, text) ==
    LET g == SearchGroup1(regex.pre, regex.grp, regex.post, OrEmpty(text)) IN
    IF g = None THEN None ELSE Some(strip(g[1]))

\* ln[:2].isdigit()
TwoDigits(ln) ==
    /\ ln # << >>
    /\ \A k \in 1..(IF Len(ln) < 2 THEN Len(ln) ELSE 2) : ln[k] \in Digits

BulletStrip == {" ", "-", BULLET, "\t"}

_extract_bullets(section_text) ==
    LET lines == Map(Filter(splitOn(section_text, "\n"), LAMBDA ln : strip(ln) # << >>),
                     LAMBDA ln : stripOf(ln, BulletStrip))
        bullets == Filter(lines,
                          LAMBDA ln : (ln # << >> /\ ln[1] \in {"-", "*", BULLET})
                                      \/ TwoDigits(ln))
    IN IF bullets # << >> THEN bullets ELSE Take(lines, ListLimit)

_find_section(text, names) ==
    LET found == Filter(split_sections(Some(text)), LAMBDA sec : sec.name \in names) IN
    IF found # << >> THEN found[1].text ELSE << >>

\* the fallback of lines 88-95: the lines of text that hold one of the cues
CueLines(text, cues) ==
    join(<<"\n">>, Filter(splitOn(text, "\n"), LAMBDA ln : HasKeyword(ln, cues)))

\* extract_job_data from line 78 on: raw_in is what _read_any returned
job_fields(raw_in) ==
    LET text == clean_text(Some(raw_in))
        resp_sec == _find_section(text, {"responsibilities"})
        req_sec == _find_section(text, {"requirements"})
        responsibilities_sec ==
            IF resp_sec = << >>
            THEN CueLines(text, << <<"r","e","s","p","o","n","s","i","b","i","l","i","t","i","e","s">>, <<"y","o","u"," ","w","i","l","l">>, <<"y","o","u","'","l","l">> >>)
            ELSE resp_sec
        requirements_sec ==
            IF req_sec = << >>
            THEN CueLines(text, << <<"r","e","q","u","i","r","e","m","e","n","t","s">>, <<"m","u","s","t"," ","h","a","v","e">>, <<"q","u","a","l","i","f","i","c","a","t","i","o","n","s">> >>)
            ELSE req_sec
        req_or_text == IF requirements_sec # << >> THEN requirements_sec ELSE text
    IN [title |-> _extract_first_match(TITLE_RE, Some(text)),
        company |-> _extract_first_match(COMPANY_RE, Some(text)),
        skills_required |-> find_skills(Some(requirements_sec \o <<"\n">> \o text), None),
        experience_required |-> _extract_first_match(EXPERIENCE_RE, Some(req_or_text)),
        education_required |-> _extract_first_match(EDUCATION_RE, Some(req_or_text)),
        responsibilities |-> _extract_bullets(responsibilities_sec),
        location |-> _extract_first_match(LOCATION_RE, Some(text)),
        raw_text |-> text]

-----------------------------------------------------------------------------
(* src/manager.py *)

\* _read_any(file_path): the decoded text of a .pdf, .docx or .txt document,
\* "" for any other extension (the decoders lie outside the repository)
_read_any(f) ==
    IF lower(f.ext) \in {<<".","p","d","f">>, <<".","d","o","c","x">>, <<".","t","x","t">>} THEN f.content ELSE << >>

resume_markers ==
    << <<"r","e","s","u","m","e">>, <<"c","u","r","r","i","c","u","l","u","m"," ","v","i","t","a","e">>, <<"c","v">>, <<"s","k","i","l","l","s">>, <<"e","x","p","e","r","i","e","n","c","e">>, <<"e","d","u","c","a","t","i","o","n">>,
       <<"l","i","n","k","e","d","i","n",".","c","o","m","/","i","n","/">> >>

job_markers ==
    << <<"j","o","b"," ","t","i","t","l","e">>, <<"r","e","s","p","o","n","s","i","b","i","l","i","t","i","e","s">>, <<"r","e","q","u","i","r","e","m","e","n","t","s">>, <<"w","h","a","t"," ","y","o","u","'","l","l"," ","d","o">>,
       <<"w","h","a","t"," ","y","o","u","'","l","l"," ","n","e","e","d">>, <<"c","o","m","p","a","n","y">>, <<"e","m","p","l","o","y","e","r">> >>

\* sum(1 for m in markers if m in lower)
MarkerScore(markers, low) == Cardinality({k \in 1..Len(markers) : Contains(low, markers[k])})

\* the decision with a strict comparison: a tie goes to job
DecideStrict(resume_score, job_score) ==
    IF resume_score = 0 /\ job_score = 0 THEN "unknown"
    ELSE IF resume_score > job_score THEN "resume"
    ELSE "job"

\* the decision of lines 56-60
Decide(resume_score, job_score) ==
    IF resume_score = 0 /\ job_score = 0 THEN "unknown"
    ELSE IF resume_score >= job_score THEN "resume"
    ELSE "job"

\* detect_file_type(file_path, text): f is the document at file_path, text an
\* Optional[str]
detect_file_type(f, text) ==
    LET raw_in == IF text # None THEN text[1] ELSE _read_any(f)
        normalized == clean_text(Some(raw_in))
        low == lower(normalized)
    IN Decide(MarkerScore(resume_markers, low), MarkerScore(job_markers, low))

\* the resume normalisation with the phone entry taken from the email field
normalize_resume_phone_from_email(d) ==
    [name |-> d.name,
     contact |-> [email |-> d.email, phone |-> d.email,
                  linkedin |-> d.linkedin, github |-> d.github],
     skills |-> d.skills,
     education |-> d.education,
     experience |-> d.experience,
     projects |-> d.projects,
     certifications |-> d.certifications,
     raw_text |-> d.raw_text]

\* lines 75-89
normalize_resume(d) ==
    [name |-> d.name,
     contact |-> [email |-> d.email, phone |-> d.phone,
                  linkedin |-> d.linkedin, github |-> d.github],
     skills |-> d.skills,
     education |-> d.education,
     experience |-> d.experience,
     projects |-> d.projects,
     certifications |-> d.certifications,
     raw_text |-> d.raw_text]

\* lines 94-105
normalize_job(d) ==
    [title |-> d.title,
     company |-> d.company,
     location |-> d.location,
     skills |-> d.skills_required,
     requirements |-> [experience |-> d.experience_required,
                       education |-> d.education_required],
     responsibilities |-> d.responsibilities,
     raw_text |-> d.raw_text]

-----------------------------------------------------------------------------
(* ParserManager.parse(file_path), statement by statement, beside a process    *)
(* that rewrites the document                                                  *)

\* raw = _read_any(file_path)                                   manager.py:70
ParseRead ==
    /\ pc = "idle"
    /\ raw' = _read_any(file)
    /\ pc' = "read"
    /\ UNCHANGED <<file, ner, doc_type, xraw, data, result, call>>

\* doc_type = self.detect_file_type(file_path, raw)             manager.py:71
ParseDetect ==
    /\ pc = "read"
    /\ doc_type' = detect_file_type(file, Some(raw))
    /\ pc' = "detected"
    /\ UNCHANGED <<file, ner, raw, xraw, data, result, call>>

\* the extractor's own raw = _read_any(file_path)
\*                                    resume_parser.py:117, job_parser.py:77
ExtractRead ==
    /\ pc = "detected"
    /\ doc_type \in {"resume", "job"}
    /\ xraw' = _read_any(file)
    /\ pc' = "xread"
    /\ UNCHANGED <<file, ner, raw, doc_type, data, result, call>>

\* data = extract_resume_data(file_path), after its read        manager.py:74
ExtractResume ==
    /\ pc = "xread"
    /\ doc_type = "resume"
    /\ data' = resume_fields(xraw, ner)
    /\ pc' = "extracted"
    /\ UNCHANGED <<file, ner, raw, doc_type, xraw, result, call>>

\* data = extract_job_data(file_path), after its read           manager.py:93
ExtractJob ==
    /\ pc = "xread"
    /\ doc_type = "job"
    /\ data' = job_fields(xraw)
    /\ pc' = "extracted"
    /\ UNCHANGED <<file, ner, raw, doc_type, xraw, result, call>>

\* manager.py:75-90
ReturnResume ==
    /\ pc = "extracted"
    /\ doc_type = "resume"
    /\ result' = [type |-> doc_type, data |-> data, normalized |-> normalize_resume(data)]
    /\ pc' = "done"
    /\ UNCHANGED <<file, ner, raw, doc_type, xraw, data, call>>

\* manager.py:94-106
ReturnJob ==
    /\ pc = "extracted"
    /\ doc_type = "job"
    /\ result' = [type |-> doc_type, data |-> data, normalized |-> normalize_job(data)]
    /\ pc' = "done"
    /\ UNCHANGED <<file, ner, raw, doc_type, xraw, data, call>>

\* manager.py:109
ReturnUnknown ==
    /\ pc = "detected"
    /\ doc_type = "unknown"
    /\ result' = [type |-> "unknown", data |-> << >>,
                  normalized |-> [raw_text |-> clean_text(Some(raw))]]
    /\ pc' = "done"
    /\ UNCHANGED <<file, ner, raw, doc_type, xraw, data, call>>

\* The documents of the model.
ResumeDoc == <<"J","o","h","n"," ","S","m","i","t","h","\n","S","k","i","l","l","s","\n","P","y","t","h","o","n",","," ","A","W","S","\n","E","x","p","e","r","i","e","n","c","e","\n","S","e","n","i","o","r"," ","E","n","g","i","n","e","e","r"," ","a","t"," ","A","c","m","e">>

JobDoc ==
    <<"J","o","b"," ","T","i","t","l","e",":"," ","B","a","c","k","e","n","d"," ","E","n","g","i","n","e","e","r","\n","C","o","m","p","a","n","y",":"," ","A","c","m","e","\n","R","e","q","u","i","r","e","m","e","n","t","s","\n","3","+"," ","y","e","a","r","s"," ","o","f"," ","e","x","p","e","r","i","e","n","c","e","\n","B","a","c","h","e","l","o","r","'","s"," ","d","e","g","r","e","e">>

ContactDoc == <<"J","a","n","e"," ","R","o","e","\n","c","v","\n","j","a","n","e","@","x",".","i","o"," ","5","5","5","-","1","2","3","-","4","5","6","7","\n","h","t","t","p","s",":","/","/","g","i","t","h","u","b",".","c","o","m","/","j","r">>

Docs == {<< >>, ResumeDoc, JobDoc, ContactDoc, <<"h","e","l","l","o","\n","w","o","r","l","d">>, <<"S","k","i","l","l","s">>}

Exts == {<<".","t","x","t">>, <<".","m","d">>}

\* Another process rewrites the document while the call still has a read of it
\* ahead (a later write is one the call cannot see).
Rewrite ==
    /\ pc \in {"idle", "read", "detected"}
    /\ call.op = "none"
    /\ \E d \in Docs \ {file.content} : file' = [file EXCEPT !.content = d]
    /\ UNCHANGED <<ner, pc, raw, doc_type, xraw, data, result, call>>

-----------------------------------------------------------------------------
(* Calls of the utility functions *)

\* A call about to be made: the function, its argument, no result yet.
Pending(op, arg) == [op |-> op, arg |-> arg, done |-> FALSE, ret |-> << >>]

NoCall == [op |-> "none", arg |-> None, done |-> TRUE, ret |-> << >>]

Returns(v) == call' = [call EXCEPT !.done = TRUE, !.ret = v]

Returned(op) == call.op = op /\ call.done

CallCleanText ==
    /\ call.op = "clean_text" /\ ~call.done
    /\ Returns(clean_text(call.arg))
    /\ UNCHANGED parseVars

CallExtractEmail ==
    /\ call.op = "extract_email" /\ ~call.done
    /\ Returns(extract_email(call.arg))
    /\ UNCHANGED parseVars

CallExtractPhone ==
    /\ call.op = "extract_phone" /\ ~call.done
    /\ Returns(extract_phone(call.arg))
    /\ UNCHANGED parseVars

CallExtractUrls ==
    /\ call.op = "extract_urls" /\ ~call.done
    /\ Returns(extract_urls(call.arg))
    /\ UNCHANGED parseVars

CallExtractLinkedin ==
    /\ call.op = "extract_linkedin" /\ ~call.done
    /\ Returns(extract_linkedin(call.arg))
    /\ UNCHANGED parseVars

CallExtractGithub ==
    /\ call.op = "extract_github" /\ ~call.done
    /\ Returns(extract_github(call.arg))
    /\ UNCHANGED parseVars

\* arg = [text, extra]
CallFindSkills ==
    /\ call.op = "find_skills" /\ ~call.done
    /\ Returns(find_skills(call.arg.text, call.arg.extra))
    /\ UNCHANGED parseVars

CallSplitSections ==
    /\ call.op = "split_sections" /\ ~call.done
    /\ Returns(split_sections(call.arg))
    /\ UNCHANGED parseVars

CallDetectFileType ==
    /\ call.op = "detect_file_type" /\ ~call.done
    /\ Returns(detect_file_type(file, call.arg))
    /\ UNCHANGED parseVars

-----------------------------------------------------------------------------
(* Specifications *)

ParseIdle ==
    /\ pc = "idle"
    /\ raw = << >>
    /\ doc_type = "unknown"
    /\ xraw = << >>
    /\ data = << >>
    /\ result = << >>

\* Spec: one parse call on a document of Docs, or one call of a utility
\* function on an empty, an absent or a small argument.
ApiTexts == {None, Some(<< >>), Some(<<"G","o"," ","a","@","b",".","c","o">>), Some(<<"S","k","i","l","l","s","\n","x">>)}

ApiOps ==
    {"clean_text", "extract_email", "extract_phone", "extract_urls", "extract_linkedin",
     "extract_github", "split_sections", "detect_file_type"}

InitParse ==
    /\ ParseIdle
    /\ file \in [ext : Exts, content : Docs]
    /\ ner \in NerKinds
    /\ call = NoCall

InitApi ==
    /\ ParseIdle
    /\ file = [ext |-> <<".","t","x","t">>, content |-> <<"c","v">>]
    /\ ner = "absent"
    /\ \/ \E op \in ApiOps, a \in ApiTexts : call = Pending(op, a)
       \/ \E a \in ApiTexts, x \in {None, Some(<< >>), Some(<< <<"X">> >>)} :
            call = Pending("find_skills", [text |-> a, extra |-> x])

Init == InitParse \/ InitApi

Next ==
    \/ ParseRead
    \/ ParseDetect
    \/ ExtractRead
    \/ ExtractResume
    \/ ExtractJob
    \/ ReturnResume
    \/ ReturnJob
    \/ ReturnUnknown
    \/ Rewrite
    \/ CallCleanText
    \/ CallExtractEmail
    \/ CallExtractPhone
    \/ CallExtractUrls
    \/ CallExtractLinkedin
    \/ CallExtractGithub
    \/ CallFindSkills
    \/ CallSplitSections
    \/ CallDetectFileType

Spec == Init /\ [][Next]_vars

\* SpecClean: clean_text on every text over CleanAlphabet of at most
\* MaxCleanLen characters
MaxCleanLen == 4

CleanAlphabet == {"a", " ", "\n", "\r", NBSP, BEL}

InitClean ==
    /\ ParseIdle
    /\ file = [ext |-> <<".","t","x","t">>, content |-> << >>]
    /\ ner = "absent"
    /\ \E s \in SeqsUpTo(CleanAlphabet, MaxCleanLen) : call = Pending("clean_text", Some(s))

NextClean == CallCleanText

SpecClean == InitClean /\ [][NextClean]_vars

\* SpecSkills: find_skills on every text made of at most MaxSkillTokens tokens of
\* SkillTokens, with and without extra skills
MaxSkillTokens == 3

SkillTokens == { <<"g","o">>, <<"G","o">>, <<"c","+","+">>, <<"c","#">>, <<"+">>, <<"-">>, <<".">>, <<" ">> }

SkillExtras == {None, Some(<< <<"X">>, <<"c">> >>), Some(<< << >> >>)}

RECURSIVE ConcatAll(_)
ConcatAll(parts) == IF parts = << >> THEN << >> ELSE Head(parts) \o ConcatAll(Tail(parts))

InitSkills ==
    /\ ParseIdle
    /\ file = [ext |-> <<".","t","x","t">>, content |-> << >>]
    /\ ner = "absent"
    /\ \E ts \in SeqsUpTo(SkillTokens, MaxSkillTokens), x \in SkillExtras :
            call = Pending("find_skills", [text |-> Some(ConcatAll(ts)), extra |-> x])

NextSkills == CallFindSkills

SpecSkills == InitSkills /\ [][NextSkills]_vars

\* SpecSections: split_sections on every text of at most MaxSectionLines lines of
\* SectionLines
MaxSectionLines == 3

SectionLinePool ==
    { <<"S","k","i","l","l","s">>, <<"s","k","i","l","l","s"," ",":">>, <<"E","X","P","E","R","I","E","N","C","E",":">>, <<"P","y","t","h","o","n",","," ","A","W","S">>, <<" ","x"," ">>, << >>,
      <<"S","k","i","l","l","s"," ","x">>, <<"W","o","r","k"," ","E","x","p","e","r","i","e","n","c","e">> }

InitSections ==
    /\ ParseIdle
    /\ file = [ext |-> <<".","t","x","t">>, content |-> << >>]
    /\ ner = "absent"
    /\ \E ls \in SeqsUpTo(SectionLinePool, MaxSectionLines) :
            call = Pending("split_sections", Some(join(<<"\n">>, ls)))

NextSections == CallSplitSections

SpecSections == InitSections /\ [][NextSections]_vars

\* SpecDetect: detect_file_type on every text made of at most MaxDetectTokens
\* tokens of DetectTokens
MaxDetectTokens == 3

DetectTokens ==
    { <<"c","v">>, <<"R","e","s","u","m","e">>, <<"s","k","i","l","l","s">>, <<"C","o","m","p","a","n","y">>, <<"e","m","p","l","o","y","e","r">>, <<"j","o","b"," ","t","i","t","l","e">>, <<"J","o","b","\n","T","i","t","l","e">>,
      <<" ">>, <<"x">> }

InitDetect ==
    /\ ParseIdle
    /\ file = [ext |-> <<".","t","x","t">>, content |-> << >>]
    /\ ner = "absent"
    /\ \E ts \in SeqsUpTo(DetectTokens, MaxDetectTokens) :
            call = Pending("detect_file_type", Some(ConcatAll(ts)))

NextDetect == CallDetectFileType

SpecDetect == InitDetect /\ [][NextDetect]_vars

\* _extract_bullets(section_text), section_text a str
CallExtractBullets ==
    /\ call.op = "_extract_bullets" /\ ~call.done
    /\ Returns(_extract_bullets(call.arg))
    /\ UNCHANGED parseVars

\* SpecBullets: _extract_bullets on every section text of at most MaxBulletLines
\* lines of BulletLinePool
MaxBulletLines == 3

BulletLinePool ==
    { <<"-"," ","B","u","i","l","d"," ","A","P","I","s">>, <<"*"," ","S","h","i","p"," ","i","t">>, <<BULLET>> \o <<" ","O","w","n"," ","i","t">>, <<"1","."," ","P","l","a","n">>, <<"2",")"," ","T","e","s","t">>,
      <<"1","2"," ","r","e","v","i","e","w","s">>, <<" ","A","b","o","u","t"," ","u","s"," ">>, <<"-">>, << >> }

InitBullets ==
    /\ ParseIdle
    /\ file = [ext |-> <<".","t","x","t">>, content |-> << >>]
    /\ ner = "absent"
    /\ \E ls \in SeqsUpTo(BulletLinePool, MaxBulletLines) :
            call = Pending("_extract_bullets", join(<<"\n">>, ls))

NextBullets == CallExtractBullets

SpecBullets == InitBullets /\ [][NextBullets]_vars

-----------------------------------------------------------------------------
(* Claims *)

\* A line of the text is a recognized header line when one of the header
\* patterns matches it.
IsHeaderLine(ln) == MatchedHeader(ln) # 0

HeaderKind(ln) == header_map[MatchedHeader(ln)].name

\* the kinds of the sections, in order
Kinds(sections) == Map(sections, LAMBDA sec : sec.name)

\* "body" when non-empty text precedes the first header line
LeadingBody(lines) == IF ~IsHeaderLine(lines[1]) THEN <<"body">> ELSE << >>

\* the header lines of lines[1..n] that have text of their own: the next
\* non-blank line exists and is no header line
HeadersWithText(lines) ==
    Filter([i \in 1..Len(lines) |-> i],
           LAMBDA i : /\ IsHeaderLine(lines[i])
                      /\ i < Len(lines)
                      /\ ~IsHeaderLine(lines[i + 1]))

\* C1 as stated: for a text with N >= 1 recognized header lines split_sections
\* returns exactly N sections, or N+1 when non-empty text precedes the first
\* header, and their kinds are those of the header lines, in order.
C1_OneSectionPerHeader ==
    Returned("split_sections") =>
        LET lines == StrippedLines(OrEmpty(call.arg))
            headers == Filter(lines, IsHeaderLine)
        IN headers # << >> =>
            /\ Len(call.ret) = Len(headers) + Len(LeadingBody(lines))
            /\ Kinds(call.ret) = LeadingBody(lines) \o Map(headers, HeaderKind)

\* C1 amended: for a text with N >= 1 recognized header lines split_sections
\* returns one section for every header line whose next non-blank line exists
\* and is no header line, after a body section when non-empty text precedes the
\* first header; the kinds are those of these header lines, in order.  When no
\* header line has text of its own and none precedes the first, the result is
\* the single section ("body", text).
C1_OneSectionPerHeaderWithText ==
    Returned("split_sections") =>
        LET lines == StrippedLines(OrEmpty(call.arg))
            expected == LeadingBody(lines)
                        \o Map(HeadersWithText(lines), LAMBDA i : HeaderKind(lines[i]))
        IN (\E i \in 1..Len(lines) : IsHeaderLine(lines[i])) =>
            IF expected # << >> THEN Kinds(call.ret) = expected
            ELSE call.ret = <<[name |-> "body", text |-> call.arg[1]]>>

\* C1 witness: a text with two header lines or more of which one has no text
\* of its own, and a result that starts with the section of a header.
C1_Witness ==
    /\ Returned("split_sections")
    /\ LET lines == StrippedLines(OrEmpty(call.arg)) IN
        /\ Len(Filter(lines, IsHeaderLine)) >= 2
        /\ Len(call.ret) < Len(Filter(lines, IsHeaderLine))
        /\ call.ret[1].name # "body"

\* the marker phrases of a list that occur in the lowercased collapsed text
MarkersIn(markers, text) ==
    {m \in Range(markers) : Contains(lower(clean_text(Some(text))), m)}

\* C2: detect_file_type returns "unknown" exactly when no marker of either list
\* occurs, "resume" when some marker occurs and at least as many distinct resume
\* markers as job markers occur, "job" only when more distinct job markers
\* occur; a marker counts once however often it occurs.
C2_DetectDecision ==
    Returned("detect_file_type") /\ call.arg # None =>
        LET resumeScore == Cardinality(MarkersIn(resume_markers, call.arg[1]))
            jobScore == Cardinality(MarkersIn(job_markers, call.arg[1]))
        IN /\ call.ret = "unknown" <=> (resumeScore = 0 /\ jobScore = 0)
           /\ call.ret = "resume" <=> (resumeScore + jobScore > 0 /\ resumeScore >= jobScore)
           /\ call.ret = "job" <=> jobScore > resumeScore

\* the number of places at which p occurs in s
Occurrences(s, p) == Cardinality({i \in 1..(Len(s) - Len(p) + 1) : StartsAt(s, p, i)})

\* C2 witness: a tie of one marker each in which the job marker occurs twice
\* in the text; the result is "resume".
C2_Witness ==
    /\ Returned("detect_file_type")
    /\ call.arg # None
    /\ Cardinality(MarkersIn(resume_markers, call.arg[1])) = 1
    /\ Cardinality(MarkersIn(job_markers, call.arg[1])) = 1
    /\ \E m \in MarkersIn(job_markers, call.arg[1]) :
            Occurrences(lower(clean_text(call.arg)), m) = 2
    /\ call.ret = "resume"

\* term occurs in text, case-insensitively, at a position that is not preceded
\* by a character of before and not followed by a character of after
OccursBounded(text, term, before, after) ==
    \E i \in 1..(Len(text) - Len(term) + 1) :
        /\ StartsAt(lower(text), term, i)
        /\ i > 1 => text[i - 1] \notin before
        /\ i + Len(term) <= Len(text) => text[i + Len(term)] \notin after

\* the dictionary of a call: the default vocabulary and the lowercased extras
Terms(extra) ==
    {lower(DEFAULT_SKILLS[i]) : i \in 1..Len(DEFAULT_SKILLS)}
    \cup (IF extra = None THEN {} ELSE {lower(extra[1][i]) : i \in 1..Len(extra[1])})

\* sorted by code points, without duplicates
StrictlySorted(xs) == \A i \in 1..(Len(xs) - 1) : StrLess(xs[i], xs[i + 1])

C8_CleanTextIdempotent ==
    Returned("clean_text") => clean_text(Some(call.ret)) = call.ret

\* C8 witness: a call that changed its argument and returned a non-empty text.
C8_Witness ==
    /\ Returned("clean_text")
    /\ call.ret # << >>
    /\ call.ret # call.arg[1]

\* no control character other than newline, no run of more than one whitespace
\* character, no leading or trailing whitespace
NormalizedText(s) ==
    /\ \A i \in 1..Len(s) : s[i] \in ControlChars => s[i] = "\n"
    /\ \A i \in 1..(Len(s) - 1) : ~(s[i] \in SpaceChars /\ s[i + 1] \in SpaceChars)
    /\ s # << >> => (s[1] \notin SpaceChars /\ s[Len(s)] \notin SpaceChars)

\* C9: whatever the input, the text clean_text returns satisfies the
\* NormalizedText invariant.
C9_CleanTextNormalized ==
    Returned("clean_text") => NormalizedText(call.ret)

\* the lines of a text that hold a role keyword
RoleLines(text) ==
    Filter(StrippedLines(text), LAMBDA ln : HasKeyword(ln, ExperienceKeywords))

\* C3: the resume pipeline segments the text of the document with its line
\* breaks: the document John Smith / Skills / Python, AWS / Experience / Senior
\* Engineer at Acme gives skills ["aws", "python"] and experience ["Senior
\* Engineer at Acme"], and every line of an experience section of the document
\* that holds a role keyword is in the experience field.
C3_ResumeKeepsLines ==
    pc = "done" /\ result.type = "resume" =>
        /\ xraw = ResumeDoc =>
            /\ result.data.skills = << <<"a","w","s">>, <<"p","y","t","h","o","n">> >>
            /\ result.data.experience = << <<"S","e","n","i","o","r"," ","E","n","g","i","n","e","e","r"," ","a","t"," ","A","c","m","e">> >>
        /\ \A k \in 1..Len(split_sections(Some(xraw))) :
            LET sec == split_sections(Some(xraw))[k] IN
            sec.name = "experience" =>
                Range(RoleLines(sec.text)) \subseteq Range(result.data.experience)

\* the first line of text that holds label, case-insensitively
FirstLineWith(text, label) ==
    LET ls == Filter(splitOn(text, "\n"), LAMBDA ln : Contains(lower(ln), label))
    IN IF ls = << >> THEN << >> ELSE ls[1]

\* value is the end of line ln
EndOfLine(value, ln) ==
    /\ value # None
    /\ Len(value[1]) <= Len(ln)
    /\ From(ln, Len(ln) - Len(value[1]) + 1) = value[1]

\* C4: in the job pipeline title and company are the remainder of the first
\* line that carries the label and hold no text of a following line: the
\* document Job Title: Backend Engineer / Company: Acme / Requirements / 3+
\* years of experience / Bachelor's degree gives title "Backend Engineer",
\* company "Acme", an experience_required of "3+ years of experience" and an
\* education_required inside "Bachelor's degree".
C4_JobFieldsSingleLine ==
    pc = "done" /\ result.type = "job" =>
        /\ xraw = JobDoc =>
            /\ result.data.title = Some(<<"B","a","c","k","e","n","d"," ","E","n","g","i","n","e","e","r">>)
            /\ result.data.company = Some(<<"A","c","m","e">>)
            /\ result.data.experience_required = Some(<<"3","+"," ","y","e","a","r","s"," ","o","f"," ","e","x","p","e","r","i","e","n","c","e">>)
            /\ result.data.education_required # None
            /\ Contains(<<"B","a","c","h","e","l","o","r","'","s"," ","d","e","g","r","e","e">>, result.data.education_required[1])
        /\ result.data.title # None =>
            EndOfLine(result.data.title, FirstLineWith(xraw, <<"t","i","t","l","e">>))
        /\ result.data.company # None =>
            EndOfLine(result.data.company, FirstLineWith(xraw, <<"c","o","m","p","a","n","y">>))

ResumeKeys ==
    {"name", "email", "phone", "education", "experience", "skills", "projects",
     "certifications", "linkedin", "github", "raw_text"}

JobKeys ==
    {"title", "company", "skills_required", "experience_required", "education_required",
     "responsibilities", "location", "raw_text"}

\* C5: parse is a pure projection.  A resume (job) result holds as data what
\* extract_resume_data (extract_job_data) returns on the document, every field
\* of normalized is the field of data it projects, and the result for an
\* unknown document is the type, an empty data and the collapsed text.
C5_ParseIsProjection ==
    pc = "done" =>
        /\ result.type = "resume" =>
            LET d == result.data
                n == result.normalized
            IN /\ d = resume_fields(_read_any(file), ner)
               /\ n.name = d.name
               /\ n.contact = [email |-> d.email, phone |-> d.phone,
                               linkedin |-> d.linkedin, github |-> d.github]
               /\ n.skills = d.skills
               /\ n.education = d.education
               /\ n.experience = d.experience
               /\ n.projects = d.projects
               /\ n.certifications = d.certifications
               /\ n.raw_text = d.raw_text
        /\ result.type = "job" =>
            LET d == result.data
                n == result.normalized
            IN /\ d = job_fields(_read_any(file))
               /\ n.title = d.title
               /\ n.company = d.company
               /\ n.location = d.location
               /\ n.skills = d.skills_required
               /\ n.requirements = [experience |-> d.experience_required,
                                    education |-> d.education_required]
               /\ n.responsibilities = d.responsibilities
               /\ n.raw_text = d.raw_text
        /\ result.type = "unknown" =>
            result = [type |-> "unknown", data |-> << >>,
                      normalized |-> [raw_text |-> clean_text(Some(raw))]]

\* C5 witness: a returned resume whose data hold an email, a phone number and a
\* GitHub profile, all three copied into contact.
C5_Witness ==
    /\ pc = "done"
    /\ result.type = "resume"
    /\ result.data.email # None
    /\ result.data.phone # None
    /\ result.data.github # None
    /\ result.data.phone # result.data.email
    /\ result.normalized.contact.phone = result.data.phone
    /\ result.normalized.contact.github = result.data.github

\* C6: on an empty or absent text every utility function returns its default
\* ('' for clean_text, None for the single-value extractors, [] for
\* extract_urls and find_skills, [("body", "")] for split_sections, "unknown"
\* for detect_file_type on ""), parse on an empty document returns the
\* unknown result with an empty raw_text, and the data of a resume or a job
\* hold every documented key.
C6_EmptyInputDefaults ==
    /\ Returned("clean_text") /\ Falsy(call.arg) => call.ret = << >>
    /\ \A op \in {"extract_email", "extract_phone", "extract_linkedin", "extract_github"} :
            Returned(op) /\ Falsy(call.arg) => call.ret = None
    /\ Returned("extract_urls") /\ Falsy(call.arg) => call.ret = << >>
    /\ Returned("find_skills") /\ Falsy(call.arg.text) => call.ret = << >>
    /\ Returned("split_sections") /\ Falsy(call.arg) =>
            call.ret = <<[name |-> "body", text |-> << >>]>>
    /\ Returned("detect_file_type") /\ call.arg = Some(<< >>) => call.ret = "unknown"
    /\ pc = "done" /\ raw = << >> =>
            result = [type |-> "unknown", data |-> << >>,
                      normalized |-> [raw_text |-> << >>]]
    /\ pc = "done" /\ result.type = "resume" => DOMAIN result.data = ResumeKeys
    /\ pc = "done" /\ result.type = "job" => DOMAIN result.data = JobKeys

\* C6 witness: extract_email called on an absent text has returned None.
C6_Witness ==
    /\ Returned("extract_email")
    /\ call.arg = None
    /\ call.ret = None

\* C10: the type parse returns is the classification of the text its data were
\* extracted from, also when the document is rewritten between the read parse
\* classifies and the read of the extractor.
C10_TypeMatchesData ==
    pc = "done" /\ result.type \in {"resume", "job"} =>
        result.type = detect_file_type(file, Some(result.data.raw_text))

\* the lines of text before its first header line
LinesBeforeHeader(lines) ==
    IF \E i \in 1..Len(lines) : IsHeaderLine(lines[i])
    THEN SubSeq(lines, 1, (CHOOSE i \in 1..Len(lines) :
                            /\ IsHeaderLine(lines[i])
                            /\ \A j \in 1..(i - 1) : ~IsHeaderLine(lines[j])) - 1)
    ELSE lines

\* C11: in a result of split_sections a section of kind "body" is the first
\* element, it holds the text before the first recognized header line (the whole
\* text when no line is a header), and no recognized header line is a line of
\* the text of a returned section, also when every line of the input is a
\* header line.
C11_BodyHoldsNoHeader ==
    Returned("split_sections") =>
        LET lines == StrippedLines(OrEmpty(call.arg)) IN
        /\ \A k \in 1..Len(call.ret) :
            /\ call.ret[k].name = "body" =>
                /\ k = 1
                /\ call.ret[k].text = join(<<"\n">>, LinesBeforeHeader(lines))
            /\ \A i \in 1..Len(StrippedLines(call.ret[k].text)) :
                ~IsHeaderLine(StrippedLines(call.ret[k].text)[i])

Punctuation == Range(<<"!","#","$","%","&","'","(",")","*","+",",","-",".","/",":",";","=","?","@","[","]","_","~">>)

\* the line starts, after its leading whitespace, with '-', '*', the bullet
\* character, or a digit followed by punctuation
BulletLooking(ln) ==
    LET s == strip(ln) IN
    /\ s # << >>
    /\ \/ s[1] \in {"-", "*", BULLET}
       \/ Len(s) >= 2 /\ s[1] \in Digits /\ s[2] \in Punctuation

\* C12: when a non-empty line of the section starts with '-', '*', the bullet
\* character or a digit followed by punctuation, _extract_bullets returns these
\* bullet-looking lines and no other, in the order of the section (each line as
\* the function trims it); when no line looks like a bullet it returns the
\* first 20 non-empty lines.
C12_BulletsPreferred ==
    Returned("_extract_bullets") =>
        LET nonempty == Filter(splitOn(call.arg, "\n"), LAMBDA ln : strip(ln) # << >>)
            looking == Filter(nonempty, BulletLooking)
            trimmed(ls) == Map(ls, LAMBDA ln : stripOf(ln, BulletStrip))
        IN IF looking # << >>
           THEN call.ret = trimmed(looking)
           ELSE call.ret = Take(trimmed(nonempty), ListLimit)

====
